---- MODULE Spec2Model ----
(***************************************************************************)
(* Model of the colour-ramp generator of js/main.js: the colour model      *)
(* converters hsv2hsl / hsv2hsx, the hex encoder hslToHex, the curve       *)
(* sampler pointOnCurve, the ramp generator generateRandomColorRamp and    *)
(* the page script that calls it.                                          *)
(*                                                                         *)
(* JavaScript numbers are modelled in fixed point: the integer n stands    *)
(* for the double n / SCALE.  Three values outside the finite range stand  *)
(* for +Infinity, -Infinity and NaN, with the IEEE-754 rules the code      *)
(* meets (x/0, 0*Infinity, 1**Infinity, comparisons with NaN).             *)
(***************************************************************************)
EXTENDS Integers, Sequences, FiniteSets, TLC

VARIABLES
    pc,           \* "idle": the caller runs; "loop": inside generateRandomColorRamp
    argument,     \* the argument of the current call: <<>> or <<configuration>>
    given,        \* the argument as the caller passed it (history)
    i,            \* the loop variable of generateRandomColorRamp
    baseColors,   \* the local array baseColors
    lightColors,  \* the local array lightColors
    darkColors,   \* the local array darkColors
    invoked,      \* the arguments of the custom curveMethod invocations of this call
    heap,         \* the arrays the caller holds, by address
    log,          \* the completed calls, in order: argument, outcome, and the
                  \* value of tonal when the call ended
    tonal,        \* how often colorPaletteModified has run
    probe         \* a direct call of one of the pure functions

vars == << pc, argument, given, i, baseColors, lightColors, darkColors, invoked,
           heap, log, tonal, probe >>

\* ------------------------------------------------------------------------
\* Numbers
\* ------------------------------------------------------------------------

\* fixed-point units per 1.0
SCALE == 10^4

\* largest finite magnitude of the model (10000.0); beyond it a value
\* saturates to an infinity
LIMIT == 10^8

PosInf == LIMIT + 1
NegInf == 0 - (LIMIT + 1)
NaN == LIMIT + 2

IsNaN(a) == a = NaN
IsInf(a) == a = PosInf \/ a = NegInf
IsFinite(a) == ~IsNaN(a) /\ ~IsInf(a)

\* the fixed-point value of the integer literal n
Num(n) == n * SCALE

\* the fixed-point value of the decimal literal n / d (d a power of ten)
Frac(n, d) == (n * SCALE) \div d

AbsInt(n) == IF n < 0 THEN 0 - n ELSE n
SgnInt(n) == IF n < 0 THEN 0 - 1 ELSE IF n > 0 THEN 1 ELSE 0

\* a finite result, saturated to an infinity outside the finite range
Sat(n) == IF n > LIMIT THEN PosInf ELSE IF n < 0 - LIMIT THEN NegInf ELSE n

\* n / d rounded to the nearest integer, halves away from zero (d > 0)
RoundDiv(n, d) == SgnInt(n) * ((AbsInt(n) + d \div 2) \div d)

\* F applied to the values of its arguments: JavaScript evaluates every
\* operand once, before the operation
Eval1(v, F(_)) == CHOOSE r \in { F(x) : x \in {v} } : TRUE
Eval2(v, w, F(_, _)) == CHOOSE r \in { F(x, y) : x \in {v}, y \in {w} } : TRUE
Eval3(u, v, w, F(_, _, _)) ==
    CHOOSE r \in { F(x, y, z) : x \in {u}, y \in {v}, z \in {w} } : TRUE

\* unary minus
Neg(a0) == Eval1(a0, LAMBDA a : IF IsNaN(a) THEN NaN ELSE 0 - a)

\* a + b
Add(a0, b0) ==
    Eval2(a0, b0, LAMBDA a, b :
        IF IsNaN(a) \/ IsNaN(b) THEN NaN
        ELSE IF IsInf(a) /\ IsInf(b) THEN (IF a = b THEN a ELSE NaN)
        ELSE IF IsInf(a) THEN a
        ELSE IF IsInf(b) THEN b
        ELSE Sat(a + b))

\* a - b
Sub(a, b) == Add(a, Neg(b))

\* a * b for finite a, b > 0, to the nearest unit, or above LIMIT when the
\* product is: the operands are split into integer and fractional part so
\* that no intermediate product leaves the integers of the model checker
MulMagnitude(a, b) ==
    IF (a \div SCALE) * (b \div SCALE) > LIMIT \div SCALE THEN LIMIT + 1
    ELSE (a \div SCALE) * (b \div SCALE) * SCALE
         + (a \div SCALE) * (b % SCALE)
         + (a % SCALE) * (b \div SCALE)
         + RoundDiv((a % SCALE) * (b % SCALE), SCALE)

\* the decimal digits of r / b after those of q, one for each factor of ten
\* left in unit (0 <= r < b): the quotient so far and the remainder
RECURSIVE DivDigits(_, _, _, _)
DivDigits(q0, r0, b0, unit0) ==
    Eval2(<<q0, r0>>, <<b0, unit0>>, LAMBDA qr, bu :
        IF bu[2] = 1 THEN qr
        ELSE DivDigits(qr[1] * 10 + (qr[2] * 10) \div bu[1], (qr[2] * 10) % bu[1],
                       bu[1], bu[2] \div 10))

\* a / b for finite a >= 0 and b > 0, to the nearest unit, or above LIMIT
\* when the quotient is: long division, for the same reason
DivMagnitude(a, b) ==
    IF a \div b > LIMIT \div SCALE THEN LIMIT + 1
    ELSE Eval1(DivDigits(a \div b, a % b, b, SCALE), LAMBDA qr :
             IF 2 * qr[2] >= b THEN qr[1] + 1 ELSE qr[1])

\* a * b
Mul(a0, b0) ==
    Eval2(a0, b0, LAMBDA a, b :
        IF IsNaN(a) \/ IsNaN(b) THEN NaN
        ELSE IF IsInf(a) \/ IsInf(b)
             THEN (IF a = 0 \/ b = 0 THEN NaN
                   ELSE IF SgnInt(a) * SgnInt(b) > 0 THEN PosInf ELSE NegInf)
        ELSE IF a = 0 \/ b = 0 THEN 0
        ELSE Sat(SgnInt(a) * SgnInt(b) * MulMagnitude(AbsInt(a), AbsInt(b))))

\* a / b
Div(a0, b0) ==
    Eval2(a0, b0, LAMBDA a, b :
        IF IsNaN(a) \/ IsNaN(b) THEN NaN
        ELSE IF IsInf(a) /\ IsInf(b) THEN NaN
        ELSE IF IsInf(a) THEN (IF SgnInt(a) * (IF b < 0 THEN 0 - 1 ELSE 1) > 0
                               THEN PosInf ELSE NegInf)
        ELSE IF IsInf(b) THEN 0
        ELSE IF b = 0
             THEN (IF a = 0 THEN NaN ELSE IF a > 0 THEN PosInf ELSE NegInf)
        ELSE Sat(SgnInt(a) * SgnInt(b) * DivMagnitude(AbsInt(a), AbsInt(b))))

\* a < b, false when either is NaN
Lt(a0, b0) == Eval2(a0, b0, LAMBDA a, b : ~IsNaN(a) /\ ~IsNaN(b) /\ a < b)

\* a <= b, false when either is NaN
Le(a0, b0) == Eval2(a0, b0, LAMBDA a, b : ~IsNaN(a) /\ ~IsNaN(b) /\ a <= b)

\* Math.min(a, b)
MathMin(a0, b0) ==
    Eval2(a0, b0, LAMBDA a, b :
        IF IsNaN(a) \/ IsNaN(b) THEN NaN ELSE IF a < b THEN a ELSE b)

\* Math.max(a, b)
MathMax(a0, b0) ==
    Eval2(a0, b0, LAMBDA a, b :
        IF IsNaN(a) \/ IsNaN(b) THEN NaN ELSE IF a > b THEN a ELSE b)

\* Math.abs(a)
MathAbs(a0) == Eval1(a0, LAMBDA a : IF IsNaN(a) THEN NaN ELSE AbsInt(a))

\* Math.sign(a)
MathSign(a0) == Eval1(a0, LAMBDA a : IF IsNaN(a) THEN NaN ELSE Num(SgnInt(a)))

\* a % b of JavaScript: the remainder takes the sign of the dividend
JsRem(a0, b0) ==
    Eval2(a0, b0, LAMBDA a, b :
        IF IsNaN(a) \/ IsNaN(b) \/ IsInf(a) \/ b = 0 THEN NaN
        ELSE IF IsInf(b) THEN a
        ELSE SgnInt(a) * (AbsInt(a) % AbsInt(b)))

\* a number used as a condition: 0 and NaN are falsy
Truthy(a0) == Eval1(a0, LAMBDA a : ~IsNaN(a) /\ a # 0)

\* ------------------------------------------------------------------------
\* Math library
\* ------------------------------------------------------------------------

\* Math.PI
MathPI == 31416

\* b ** n for a finite b and an integer n >= 0, by squaring
RECURSIVE PowInt(_, _)
PowInt(b0, n0) ==
    Eval2(b0, n0, LAMBDA b, n :
        IF n = 0 THEN Num(1)
        ELSE Eval1(PowInt(b, n \div 2), LAMBDA h :
                 IF n % 2 = 1 THEN Mul(Mul(h, h), b) ELSE Mul(h, h)))

\* Math.LN2
MathLN2 == 6931

\* the integer k with 3/4 <= b / 2^k < 3/2, for a finite b > 0
BinaryExponent(b) ==
    IF b >= Frac(3, 4)
    THEN CHOOSE k \in 0..14 : b \div 2^k >= Frac(3, 4) /\ b \div 2^k < Frac(3, 2)
    ELSE 0 - (CHOOSE j \in 1..14 : b * 2^j >= Frac(3, 4) /\ b * 2^j < Frac(3, 2))

\* ln m for 3/4 <= m < 3/2: 2 artanh t with t = (m - 1) / (m + 1), by the
\* series 2 (t + t^3/3 + t^5/5 + t^7/7)
LnSeries(m0) ==
    Eval1(Div(Sub(m0, Num(1)), Add(m0, Num(1))), LAMBDA t :
      Eval1(Mul(t, t), LAMBDA t2 :
        Eval1(Mul(t, t2), LAMBDA t3 :
          Eval1(Mul(t3, t2), LAMBDA t5 :
            2 * (t + RoundDiv(t3, 3) + RoundDiv(t5, 5) + RoundDiv(Mul(t5, t2), 7))))))

\* ln b for a finite b > 0: k ln 2 + ln (b / 2^k)
Ln(b0) ==
    Eval2(b0, BinaryExponent(b0), LAMBDA b, k :
        k * MathLN2 + LnSeries(IF k >= 0 THEN b \div 2^k ELSE b * 2^(0 - k)))

\* e ** r for -ln 2 / 2 <= r <= ln 2 / 2: the Taylor polynomial of degree 5
ExpSeries(r0) ==
    Eval2(r0, Mul(r0, r0), LAMBDA r, r2 :
        Num(1) + r + RoundDiv(r2, 2) + RoundDiv(Mul(r2, r), 6)
          + RoundDiv(Mul(r2, r2), 24) + RoundDiv(Mul(Mul(r2, r2), r), 120))

\* e ** y for a finite y: 2^k e^(y - k ln 2) for the integer k nearest to
\* y / ln 2
Exp(y0) ==
    Eval2(y0, (y0 + MathLN2 \div 2) \div MathLN2, LAMBDA y, k :
        IF k > 14 THEN PosInf
        ELSE IF k < 0 - 14 THEN 0
        ELSE Eval1(ExpSeries(y - k * MathLN2), LAMBDA s :
                 IF k >= 0 THEN Sat(s * 2^k) ELSE RoundDiv(s, 2^(0 - k))))

\* b ** (f / SCALE) for a finite b > 0 and 0 <= f < SCALE: e ** (f ln b)
PowFrac(b, f) == IF f = 0 THEN Num(1) ELSE Exp(Mul(f, Ln(b)))

\* Math.pow(b, e), also b ** e
MathPow(b0, e0) ==
    Eval2(b0, e0, LAMBDA b, e :
        IF e = 0 THEN Num(1)
        ELSE IF IsNaN(b) \/ IsNaN(e) THEN NaN
        ELSE IF IsInf(e)
             THEN (IF AbsInt(b) = Num(1) THEN NaN
                   ELSE IF (AbsInt(b) > Num(1)) = (e = PosInf) THEN PosInf ELSE 0)
        ELSE IF b = 0 THEN (IF e > 0 THEN 0 ELSE PosInf)
        ELSE IF IsInf(b)
             THEN (IF e < 0 THEN 0
                   ELSE IF b = NegInf /\ e % (2 * SCALE) = SCALE THEN NegInf
                   ELSE PosInf)
        ELSE IF b < 0
             THEN (IF e % SCALE # 0 THEN NaN
                   ELSE Eval1(PowInt(0 - b, AbsInt(e) \div SCALE), LAMBDA m :
                            Eval1(IF e < 0 THEN Div(Num(1), m) ELSE m, LAMBDA v :
                                IF (e \div SCALE) % 2 = 1 THEN Neg(v) ELSE v)))
        ELSE Mul(IF e >= 0 THEN PowInt(b, e \div SCALE)
                 ELSE Div(Num(1), PowInt(b, 0 - (e \div SCALE))),
                 PowFrac(b, e % SCALE)))

\* sin x for -pi/2 <= x <= pi/2: the Taylor polynomial of degree 9,
\* x - x^3/3! + x^5/5! - x^7/7! + x^9/9!
SinSeries(x0) ==
    Eval2(x0, Mul(x0, x0), LAMBDA x, x2 :
      Eval1(Mul(x, x2), LAMBDA x3 :
        Eval1(Mul(x3, x2), LAMBDA x5 :
          Eval1(Mul(x5, x2), LAMBDA x7 :
            Eval1(x - RoundDiv(x3, 6) + RoundDiv(x5, 120) - RoundDiv(x7, 5040)
                    + RoundDiv(Mul(x7, x2), 362880),
                  LAMBDA s : IF s > Num(1) THEN Num(1)
                             ELSE IF s < Num(0 - 1) THEN Num(0 - 1)
                             ELSE s)))))

\* the angle a reduced to -pi..pi
ReduceTurn(a0) ==
    Eval1(a0 % (2 * MathPI), LAMBDA r : IF r > MathPI THEN r - 2 * MathPI ELSE r)

\* Math.sin(a): the argument is reduced to -pi/2..pi/2 first
MathSin(a0) ==
    Eval1(a0, LAMBDA a :
        IF ~IsFinite(a) THEN NaN
        ELSE Eval1(ReduceTurn(a), LAMBDA s :
                 SinSeries(IF 2 * s > MathPI THEN MathPI - s
                           ELSE IF 2 * s < 0 - MathPI THEN 0 - MathPI - s
                           ELSE s)))

\* Math.cos(a).  Math.cos(Math.PI / 2) is 6.1e-17, not 0: the double
\* Math.PI / 2 lies just below pi/2, so the result is the smallest positive
\* value rather than zero.
MathCos(a0) ==
    Eval1(a0, LAMBDA a :
        IF ~IsFinite(a) THEN NaN
        ELSE IF 2 * AbsInt(a) = MathPI THEN 1
        ELSE MathSin(a + MathPI \div 2))

\* Math.round(a) for a finite a: the nearest integer, halves upwards, as an
\* integer
MathRound(a0) == Eval1(a0, LAMBDA a : (a + SCALE \div 2) \div SCALE)

\* Strings that are built character by character are sequences of
\* one-character strings: "#ff0000" is <<"#", "f", "f", "0", "0", "0", "0">>.

\* one digit of Number.prototype.toString(16)
HexDigit(d) ==
    <<"0", "1", "2", "3", "4", "5", "6", "7", "8", "9", "a", "b", "c", "d", "e", "f">>[d + 1]

\* n.toString(16) for an integer n
RECURSIVE ToString16(_)
ToString16(n0) ==
    Eval1(n0, LAMBDA n :
        IF n < 0 THEN <<"-">> \o ToString16(0 - n)
        ELSE IF n < 16 THEN <<HexDigit(n)>>
        ELSE Append(ToString16(n \div 16), HexDigit(n % 16)))

\* ------------------------------------------------------------------------
\* Colour model converters and hex encoder
\* ------------------------------------------------------------------------

\* hsv2hsl as it would be without the test of minLightness: the division is
\* carried out even by zero.
hsv2hslUnguarded(hue, saturation, value) ==
    Eval1(Sub(value, Div(Mul(value, saturation), Num(2))), LAMBDA lightness :
      Eval1(MathMin(lightness, Sub(Num(1), lightness)), LAMBDA minLightness :
        << hue, Div(Sub(value, lightness), minLightness), lightness >>))

\* hsv2hsl(hue, saturation, value), with its two defaulted parameters
\* lightness and minLightness
hsv2hsl(hue, saturation, value) ==
    Eval1(Sub(value, Div(Mul(value, saturation), Num(2))), LAMBDA lightness :
      Eval1(MathMin(lightness, Sub(Num(1), lightness)), LAMBDA minLightness :
        << hue,
           IF Truthy(minLightness) THEN Div(Sub(value, lightness), minLightness) ELSE 0,
           lightness >>))

\* hsv2hsx(hue, saturation, value, mode)
hsv2hsx(hue, saturation, value, mode) ==
    IF mode = "hsl" THEN hsv2hsl(hue, saturation, value) ELSE <<hue, saturation, value>>

\* calculateComponent(primary, secondary, temporary) of hslToHex
calculateComponent(primary, secondary, temporary) ==
    Eval1(temporary, LAMBDA t0 :
      Eval1(IF Lt(t0, 0) THEN Add(t0, Num(1)) ELSE t0, LAMBDA t1 :
        Eval1(IF Lt(Num(1), t1) THEN Sub(t1, Num(1)) ELSE t1, LAMBDA t2 :
          IF Lt(t2, Div(Num(1), Num(6)))
          THEN Add(primary, Mul(Mul(Sub(secondary, primary), Num(6)), t2))
          ELSE IF Lt(t2, Div(Num(1), Num(2))) THEN secondary
          ELSE IF Lt(t2, Div(Num(2), Num(3)))
          THEN Add(primary,
                   Mul(Mul(Sub(secondary, primary), Sub(Div(Num(2), Num(3)), t2)),
                       Num(6)))
          ELSE primary)))

\* toHex as it would be without the zero padding
toHexUnpadded(component) == ToString16(MathRound(Mul(component, Num(255))))

\* toHex(component) of hslToHex
toHex(component) ==
    Eval1(ToString16(MathRound(Mul(component, Num(255)))), LAMBDA hex :
        IF Len(hex) = 1 THEN <<"0">> \o hex ELSE hex)

\* the three channels of hslToHex for the divided hue h, saturation s and
\* lightness l
Channels(h, s, l) ==
    IF s = 0 THEN <<l, l, l>>
    ELSE Eval1(IF Lt(l, Div(Num(1), Num(2))) THEN Mul(l, Add(Num(1), s))
               ELSE Sub(Add(l, s), Mul(l, s)),
               LAMBDA secondaryComponent :
           Eval1(Sub(Mul(Num(2), l), secondaryComponent), LAMBDA primaryComponent :
             << calculateComponent(primaryComponent, secondaryComponent,
                                   Add(h, Div(Num(1), Num(3)))),
                calculateComponent(primaryComponent, secondaryComponent, h),
                calculateComponent(primaryComponent, secondaryComponent,
                                   Sub(h, Div(Num(1), Num(3)))) >>))

\* hslToHex(hue, saturation, lightness)
hslToHex(hue, saturation, lightness) ==
    Eval1(Eval3(Div(hue, Num(360)), Div(saturation, Num(100)), Div(lightness, Num(100)),
                Channels),
          LAMBDA rgb : <<"#">> \o toHex(rgb[1]) \o toHex(rgb[2]) \o toHex(rgb[3]))

\* ------------------------------------------------------------------------
\* Curve sampler
\* ------------------------------------------------------------------------

\* A curveMethod value: a string, or a function object.  The function
\* object "diagonal" is the caller's p => [p, 1 - p].
Str(name) == [type |-> "string", name |-> name]
Fn(name) == [type |-> "function", name |-> name]

\* the value a custom curve function returns for the argument p
CustomCurve(name, p) == <<p, Sub(Num(1), p)>>

\* The call expression curveMethod(percentile): a function object is
\* invoked, anything else raises a TypeError.
Invoke(curveMethod, percentile) ==
    IF curveMethod.type = "function"
    THEN [throws |-> "none", value |-> CustomCurve(curveMethod.name, percentile),
          invoked |-> <<percentile>>]
    ELSE [throws |-> "TypeError", value |-> <<>>, invoked |-> <<>>]

\* const limit = Math.PI / 2
limit == Div(MathPI, Num(2))

\* a value pointOnCurve computes without throwing
Point(x, y) == [throws |-> "none", value |-> <<x, y>>, invoked |-> <<>>]

\* case "lame" for the angle t and the exponent exp
Lame(cosT, sinT, exp) ==
    Point(Mul(MathSign(cosT), MathPow(MathAbs(cosT), exp)),
          Mul(MathSign(sinT), MathPow(MathAbs(sinT), exp)))

\* case "function": curveMethod(percentile) is evaluated twice, for x and
\* for y
CustomCase(first, second) ==
    IF first.throws # "none" THEN first
    ELSE IF second.throws # "none"
    THEN [second EXCEPT !.invoked = first.invoked \o second.invoked]
    ELSE [ throws |-> "none",
           value |-> <<first.value[1], second.value[2]>>,
           invoked |-> first.invoked \o second.invoked ]

\* The switch of pointOnCurve: the raw x and y for the case that
\* curveMethod matches by ===, the invocations of curveMethod it makes, and
\* what it throws.
CurveCase(curveMethod, k, n, curveAccent) ==
    Eval2(Div(limit, Num(n)), Div(Num(k), Num(n)), LAMBDA slice, percentile :
        IF curveMethod = Str("lame")
        THEN Eval1(Mul(percentile, limit), LAMBDA t :
                 Eval3(MathCos(t), MathSin(t),
                       Div(Num(2), Add(Num(2), Mul(Num(20), curveAccent))), Lame))
        ELSE IF curveMethod = Str("arc")
        THEN Point(MathSin(Sub(Add(Div(MathPI, Num(2)), Mul(Num(k), slice)),
                               curveAccent)),
                   MathCos(Add(Add(Div(Neg(MathPI), Num(2)), Mul(Num(k), slice)),
                               curveAccent)))
        ELSE IF curveMethod = Str("pow")
        THEN Point(MathPow(Sub(Num(1), percentile), Sub(Num(1), curveAccent)),
                   MathPow(percentile, Sub(Num(1), curveAccent)))
        ELSE IF curveMethod = Str("powY")
        THEN Point(MathPow(Sub(Num(1), percentile), curveAccent),
                   MathPow(percentile, Sub(Num(1), curveAccent)))
        ELSE IF curveMethod = Str("powX")
        THEN Point(MathPow(percentile, curveAccent),
                   MathPow(percentile, Sub(Num(1), curveAccent)))
        ELSE IF curveMethod = Str("function")
        THEN Eval2(Invoke(curveMethod, percentile), Invoke(curveMethod, percentile),
                   CustomCase)
        ELSE [throws |-> "Error", value |-> <<>>, invoked |-> <<>>])

\* min + Math.min(Math.max(c, 0), 1) * (max - min), one coordinate
Remap(c, lo, hi) ==
    Add(lo, Mul(MathMin(MathMax(c, 0), Num(1)), Sub(hi, lo)))

\* pointOnCurve(curveMethod, i, total, curveAccent, min, max)
pointOnCurve(curveMethod, k, n, curveAccent, min, max) ==
    Eval1(CurveCase(curveMethod, k, n, curveAccent), LAMBDA raw :
        IF raw.throws # "none" THEN raw
        ELSE [raw EXCEPT !.value = << Remap(raw.value[1], min[1], max[1]),
                                      Remap(raw.value[2], min[2], max[2]) >>])

\* ------------------------------------------------------------------------
\* Ramp generator
\* ------------------------------------------------------------------------

\* A configuration object: every property is absent (<<>>) or present
\* with a value (<<v>>).
EmptyConfig ==
    [ total |-> <<>>, centerHue |-> <<>>, hueCycle |-> <<>>, offsetTint |-> <<>>,
      offsetShade |-> <<>>, curveAccent |-> <<>>, tintShadeHueShift |-> <<>>,
      curveMethod |-> <<>>, offsetCurveModTint |-> <<>>, offsetCurveModShade |-> <<>>,
      minSaturationLight |-> <<>>, maxSaturationLight |-> <<>>, colorModel |-> <<>> ]

\* a destructured property with its default
Default(prop, dflt) == IF prop = <<>> THEN dflt ELSE prop[1]

\* default of the parameter total
DefaultTotal == 198

\* The parameter list of generateRandomColorRamp: the argument (absent:
\* <<>>, else <<object>>) defaults to {} and every property to its default.
Destructure(arg) ==
    LET o == Default(arg, EmptyConfig)
    IN  [ total |-> Default(o.total, DefaultTotal),
          centerHue |-> Default(o.centerHue, 0),
          hueCycle |-> Default(o.hueCycle, Frac(3, 10)),
          offsetTint |-> Default(o.offsetTint, Frac(1, 10)),
          offsetShade |-> Default(o.offsetShade, Frac(1, 10)),
          curveAccent |-> Default(o.curveAccent, 0),
          tintShadeHueShift |-> Default(o.tintShadeHueShift, Frac(1, 10)),
          curveMethod |-> Default(o.curveMethod, Str("arc")),
          offsetCurveModTint |-> Default(o.offsetCurveModTint, Frac(3, 100)),
          offsetCurveModShade |-> Default(o.offsetCurveModShade, Frac(3, 100)),
          minSaturationLight |-> Default(o.minSaturationLight, <<0, 0>>),
          maxSaturationLight |-> Default(o.maxSaturationLight, <<Num(1), Num(1)>>),
          colorModel |-> Default(o.colorModel, "hsl") ]

\* const h = (360 + (-180 * hueCycle + (centerHue + i * (360 / (total + 1)) * hueCycle))) % 360
BaseHue(c, k) ==
    JsRem(Add(Num(360),
              Add(Mul(Num(0 - 180), c.hueCycle),
                  Add(c.centerHue,
                      Mul(Mul(Num(k), Div(Num(360), Num(c.total + 1))), c.hueCycle)))),
          Num(360))

\* the number a clamped to 0..1
Clamp01(a) == MathMin(MathMax(a, 0), Num(1))

\* the tint entry as it would be with its saturation and lightness clamped
\* to 0..1 after the offset
TintColorClamped(c, h, hslLight0) ==
    Eval1(hslLight0, LAMBDA hslLight :
    << JsRem(Add(h, Mul(Num(360), c.tintShadeHueShift)), Num(360)),
       Clamp01(Sub(hslLight[2], c.offsetTint)),
       Clamp01(Add(hslLight[3], c.offsetTint)) >>)

\* the entry pushed to lightColors
TintColor(c, h, hslLight0) ==
    Eval1(hslLight0, LAMBDA hslLight :
    << JsRem(Add(h, Mul(Num(360), c.tintShadeHueShift)), Num(360)),
       Sub(hslLight[2], c.offsetTint),
       Add(hslLight[3], c.offsetTint) >>)

\* the entry pushed to darkColors
ShadeColor(c, h, hslDark0) ==
    Eval1(hslDark0, LAMBDA hslDark :
    << JsRem(Add(Num(360), Sub(h, Mul(Num(360), c.tintShadeHueShift))), Num(360)),
       Sub(hslDark[2], c.offsetShade),
       Sub(hslDark[3], c.offsetShade) >>)

\* a pass of the loop body in which pointOnCurve threw
Aborted(kind, inv) ==
    [throws |-> kind, invoked |-> inv, base |-> <<>>, light |-> <<>>, dark |-> <<>>]

\* The loop body after its three pointOnCurve calls p, pl and pd, with
\* base hue h: the first call that threw ends the pass, else the three
\* entries are pushed.
Entries(c, h, p, pl, pd) ==
    IF p.throws # "none" THEN Aborted(p.throws, p.invoked)
    ELSE IF pl.throws # "none" THEN Aborted(pl.throws, p.invoked \o pl.invoked)
    ELSE IF pd.throws # "none"
    THEN Aborted(pd.throws, p.invoked \o pl.invoked \o pd.invoked)
    ELSE [ throws |-> "none",
           invoked |-> p.invoked \o pl.invoked \o pd.invoked,
           base |-> hsv2hsx(h, p.value[1], p.value[2], c.colorModel),
           light |-> TintColor(c, h, hsv2hsx(h, pl.value[1], pl.value[2], c.colorModel)),
           dark |-> ShadeColor(c, h, hsv2hsx(h, pd.value[1], pd.value[2], c.colorModel)) ]

\* One pass of the loop body for index k: the three entries it pushes, the
\* invocations of a custom curveMethod it makes, and what it throws.
LoopBody(c0, k0) ==
    Eval3(c0, k0, BaseHue(c0, k0), LAMBDA c, k, h :
        Eval3(pointOnCurve(c.curveMethod, k, c.total + 1, c.curveAccent,
                           c.minSaturationLight, c.maxSaturationLight),
              pointOnCurve(c.curveMethod, k, c.total + 1,
                           Add(c.curveAccent, c.offsetCurveModTint),
                           c.minSaturationLight, c.maxSaturationLight),
              pointOnCurve(c.curveMethod, k, c.total + 1,
                           Sub(c.curveAccent, c.offsetCurveModShade),
                           c.minSaturationLight, c.maxSaturationLight),
              LAMBDA p, pl, pd : Entries(c, h, p, pl, pd)))

\* ------------------------------------------------------------------------
\* Callers: bounded sets of arguments
\* ------------------------------------------------------------------------

\* largest total of the short ramps callers ask for
MaxTotal == 3

\* number of calls of generateRandomColorRamp in one run of the page
MaxCalls == 1

\* number of calls of generateRandomColorRamp in one run of a caller that
\* repeats its calls
MaxRepeats == 2

\* number of runs of colorPaletteModified in one run
MaxTonal == 1

\* the curveMethod values callers pass
MethodValues ==
    { Str("lame"), Str("arc"), Str("pow"), Str("powY"), Str("powX"),
      Str("function"), Str("bogus"), Fn("diagonal") }

\* the five names and the function object: the supported curveMethod values
SupportedMethods ==
    { Str("lame"), Str("arc"), Str("pow"), Str("powY"), Str("powX"), Fn("diagonal") }

\* the configuration of colorPaletteRamp
PageColorConfig ==
    [ EmptyConfig EXCEPT
        !.total = <<13>>, !.centerHue = <<0>>, !.hueCycle = <<0>>,
        !.curveMethod = <<Str("lame")>>, !.curveAccent = <<Frac(3, 100)>>,
        !.offsetTint = <<0>>, !.offsetShade = <<0>>, !.tintShadeHueShift = <<0>>,
        !.offsetCurveModTint = <<Frac(36, 1000)>>,
        !.offsetCurveModShade = <<Frac(36, 1000)>>,
        !.minSaturationLight = << <<0, Frac(9, 100)>> >>,
        !.maxSaturationLight = << <<Num(1), Num(1)>> >> ]

\* the configuration of neutralPaletteRamp
PageNeutralConfig ==
    [ EmptyConfig EXCEPT
        !.total = <<16>>, !.centerHue = <<0>>, !.hueCycle = <<0>>,
        !.curveMethod = <<Str("lame")>>, !.curveAccent = <<0>>,
        !.offsetTint = <<0>>, !.offsetShade = <<0>>,
        !.tintShadeHueShift = <<Frac(1, 100)>>,
        !.offsetCurveModTint = <<Frac(3, 100)>>,
        !.offsetCurveModShade = <<Frac(1, 100)>>,
        !.minSaturationLight = << <<0, 0>> >>,
        !.maxSaturationLight = << <<Frac(228, 1000), Num(1)>> >> ]

\* every curveMethod with the largest short total, and the default, an
\* unsupported and a custom curveMethod with every smaller total
MethodConfigs ==
    { [EmptyConfig EXCEPT !.curveMethod = <<m>>, !.total = <<MaxTotal>>] :
        m \in MethodValues }
    \cup
    { [EmptyConfig EXCEPT !.curveMethod = m, !.total = <<t>>] :
        m \in {<<>>, <<Str("bogus")>>, <<Fn("diagonal")>>}, t \in 0..(MaxTotal - 1) }

\* hue parameters, inside and outside their nominal ranges
HueConfigs ==
    { [EmptyConfig EXCEPT !.total = <<1>>, !.centerHue = <<Num(h[1])>>,
                          !.hueCycle = h[2], !.tintShadeHueShift = h[3]] :
        h \in { <<350, <<Num(1)>>, <<>> >>,
                <<0 - 400, <<>>, <<>> >>,
                <<10, <<0>>, <<Num(0 - 1)>> >>,
                <<350, <<Num(1)>>, <<Frac(5, 10)>> >>,
                <<200, <<Frac(5, 10)>>, <<Frac(25, 100)>> >>,
                <<359, <<Num(1)>>, <<Num(1)>> >> } }

\* curve rectangle, colour model, accent and offsets
ShapeConfigs ==
    { [EmptyConfig EXCEPT !.total = <<MaxTotal>>, !.curveMethod = <<m[1]>>,
                          !.curveAccent = <<Frac(3, 100)>>,
                          !.minSaturationLight = << <<0, Frac(9, 100)>> >>,
                          !.maxSaturationLight = << <<Frac(228, 1000), Num(1)>> >>,
                          !.colorModel = m[2], !.offsetTint = m[3]] :
        m \in { <<Str("lame"), <<>>, <<>> >>,
                <<Str("pow"), <<"hsv">>, <<Frac(5, 10)>> >>,
                <<Str("arc"), <<"hsv">>, <<>> >>,
                <<Str("powY"), <<"hsl">>, <<0>> >>,
                <<Str("powX"), <<"hsl">>, <<Frac(5, 10)>> >> } }

\* the arguments of the callers that ask for short ramps
Arguments == { <<o>> : o \in MethodConfigs \cup HueConfigs \cup ShapeConfigs }

\* the arguments of a caller that repeats its calls: the defaults, a curve
\* with its rectangle and offsets, and an unsupported curveMethod
RepeatArguments ==
    { <<o>> : o \in
        { [EmptyConfig EXCEPT !.total = <<1>>],
          [EmptyConfig EXCEPT !.total = <<1>>, !.curveMethod = <<Str("bogus")>>] }
        \cup ShapeConfigs }

\* configurations that leave total out
NoTotalConfigs ==
    { [EmptyConfig EXCEPT !.curveMethod = m] :
        m \in {<<>>, <<Str("bogus")>>, <<Fn("diagonal")>>} }

\* the arguments of the callers that ask for long ramps: those of the page,
\* no argument at all, and configurations without total
LongArguments ==
    {<<>>} \cup { <<o>> : o \in NoTotalConfigs \cup {PageColorConfig, PageNeutralConfig} }

\* ------------------------------------------------------------------------
\* The page script as a state machine
\* ------------------------------------------------------------------------

NoProbe == [fn |-> "none", args |-> <<>>, done |-> FALSE, out |-> <<>>]

\* the page before its script has called anything
Idle ==
    /\ pc = "idle"
    /\ argument = <<>>
    /\ given = <<>>
    /\ i = 0
    /\ baseColors = <<>>
    /\ lightColors = <<>>
    /\ darkColors = <<>>
    /\ invoked = <<>>
    /\ heap = <<>>
    /\ log = <<>>
    /\ tonal = 0

Init == Idle /\ probe = NoProbe

\* the destructured parameters of the current call
Params == Destructure(argument)

\* the caller calls generateRandomColorRamp(arg), if it has made fewer than
\* most calls: the parameters are bound and the three local arrays are
\* created empty
Call(arg, most) ==
    /\ pc = "idle"
    /\ Len(log) < most
    /\ pc' = "loop"
    /\ argument' = arg
    /\ given' = arg
    /\ i' = 1
    /\ baseColors' = <<>>
    /\ lightColors' = <<>>
    /\ darkColors' = <<>>
    /\ invoked' = <<>>
    /\ UNCHANGED << heap, log, tonal, probe >>

\* one pass of the for loop that pushes its three entries
StepPush ==
    /\ pc = "loop"
    /\ i < Params.total + 1
    /\ \E r \in {LoopBody(Params, i)} :
           /\ r.throws = "none"
           /\ baseColors' = Append(baseColors, r.base)
           /\ lightColors' = Append(lightColors, r.light)
           /\ darkColors' = Append(darkColors, r.dark)
           /\ invoked' = invoked \o r.invoked
    /\ i' = i + 1
    /\ UNCHANGED << pc, argument, given, heap, log, tonal, probe >>

\* the record of a call that ended by throwing: the caller gets no value
Thrown(kind, inv) ==
    [ argument |-> argument, given |-> given, throws |-> kind, invoked |-> inv,
      base |-> <<>>, light |-> <<>>, dark |-> <<>>, all |-> <<>>, refs |-> <<>>,
      tonal |-> tonal ]

\* one pass of the for loop in which pointOnCurve throws: the exception
\* leaves generateRandomColorRamp and its locals are gone
StepThrow ==
    /\ pc = "loop"
    /\ i < Params.total + 1
    /\ \E r \in {LoopBody(Params, i)} :
           /\ r.throws # "none"
           /\ log' = Append(log, Thrown(r.throws, invoked \o r.invoked))
    /\ pc' = "idle"
    /\ i' = 0
    /\ baseColors' = <<>>
    /\ lightColors' = <<>>
    /\ darkColors' = <<>>
    /\ invoked' = <<>>
    /\ UNCHANGED << argument, given, heap, tonal, probe >>

\* the addresses of the four arrays as they would be if the arrays were
\* created once, outside generateRandomColorRamp, and reused by every call
SharedRefs(h) == << 1, 2, 3, 4 >>

\* the addresses of the four arrays of a result allocated on heap h:
\* light, dark, base, all
NewRefs(h) == << Len(h) + 1, Len(h) + 2, Len(h) + 3, Len(h) + 4 >>

\* the loop is over: the result object holds the three local arrays and a
\* new array all = [...lightColors, ...baseColors, ...darkColors]
Return ==
    /\ pc = "loop"
    /\ ~(i < Params.total + 1)
    /\ LET all == lightColors \o baseColors \o darkColors
           refs == NewRefs(heap)
       IN  /\ heap' = [ a \in 1..(Len(heap) + 4) |->
                          IF a <= Len(heap) THEN heap[a]
                          ELSE IF a = refs[1] THEN lightColors
                          ELSE IF a = refs[2] THEN darkColors
                          ELSE IF a = refs[3] THEN baseColors
                          ELSE all ]
           /\ log' = Append(log,
                  [ argument |-> argument, given |-> given, throws |-> "none",
                    invoked |-> invoked, base |-> baseColors, light |-> lightColors,
                    dark |-> darkColors, all |-> all, refs |-> refs,
                    tonal |-> tonal ])
    /\ pc' = "idle"
    /\ i' = 0
    /\ baseColors' = <<>>
    /\ lightColors' = <<>>
    /\ darkColors' = <<>>
    /\ invoked' = <<>>
    /\ UNCHANGED << argument, given, tonal, probe >>

\* the calls that returned a result, in order
Returned == SelectSeq(log, LAMBDA e : e.throws = "none")

\* colorPaletteModified as it would be if all were rebuilt from the three
\* arrays whenever light is extended
colorPaletteModifiedRebuildingAll ==
    /\ pc = "idle"
    /\ tonal < MaxTonal
    /\ Returned # <<>>
    /\ LET refs == Returned[1].refs
           light == refs[1]
       IN  /\ heap[light] # <<>>
           /\ LET hue == heap[light][Len(heap[light])][1]
                  tonalValues == << <<hue, Num(1), Frac(9, 10)>>,
                                    <<hue, Num(1), Frac(95, 100)>>,
                                    <<hue, Num(1), Frac(98, 100)>>,
                                    <<hue, Num(1), Num(1)>> >>
              IN  heap' = [heap EXCEPT
                             ![light] = @ \o tonalValues,
                             ![refs[4]] = (heap[light] \o tonalValues)
                                          \o heap[refs[3]] \o heap[refs[2]]]
    /\ tonal' = tonal + 1
    /\ UNCHANGED << pc, argument, given, i, baseColors, lightColors, darkColors,
                    invoked, log, probe >>

\* colorPaletteModified(): four tonal values with the hue of the last light
\* entry of colorPaletteRamp (the first ramp generated) are pushed onto its
\* light array.  With an empty light array light.at(-1) is undefined and
\* the destructuring throws before anything is pushed.
colorPaletteModified ==
    /\ pc = "idle"
    /\ tonal < MaxTonal
    /\ Returned # <<>>
    /\ LET light == Returned[1].refs[1]
       IN  /\ heap[light] # <<>>
           /\ LET lastElement == heap[light][Len(heap[light])]
                  hue == lastElement[1]
                  tonalValues == << <<hue, Num(1), Frac(9, 10)>>,
                                    <<hue, Num(1), Frac(95, 100)>>,
                                    <<hue, Num(1), Frac(98, 100)>>,
                                    <<hue, Num(1), Num(1)>> >>
              IN  heap' = [heap EXCEPT ![light] = @ \o tonalValues]
    /\ tonal' = tonal + 1
    /\ UNCHANGED << pc, argument, given, i, baseColors, lightColors, darkColors,
                    invoked, log, probe >>

Next ==
    \/ \E arg \in Arguments : Call(arg, MaxCalls)
    \/ StepPush
    \/ StepThrow
    \/ Return
    \/ colorPaletteModified

Spec == Init /\ [][Next]_vars

\* the same script with the callers that ask for long ramps
NextLong ==
    \/ \E arg \in LongArguments : Call(arg, MaxCalls)
    \/ StepPush
    \/ StepThrow
    \/ Return
    \/ colorPaletteModified

SpecLong == Init /\ [][NextLong]_vars

\* the same script with a caller that repeats its calls
NextRepeat ==
    \/ \E arg \in RepeatArguments : Call(arg, MaxRepeats)
    \/ StepPush
    \/ StepThrow
    \/ Return
    \/ colorPaletteModified

SpecRepeat == Init /\ [][NextRepeat]_vars

\* ------------------------------------------------------------------------
\* Direct calls of the pure functions
\* ------------------------------------------------------------------------

\* largest number of divisions (the parameter total) of a direct
\* pointOnCurve call
MaxDivisions == 3

\* saturation and value of hsv2hsl run over k / UnitSteps, k in 0..UnitSteps
UnitSteps == 4

\* the hues of hslToHex run over k * 360 / HueSteps, k in 0..HueSteps - 1
HueSteps == 12

\* saturation and lightness of hslToHex run over k * 100 / PercentSteps
PercentSteps == 4

\* curveAccent values of direct pointOnCurve calls
Accents ==
    { 0, Frac(3, 100), Frac(5, 10), Num(2), 0 - Frac(5, 100), 0 - Frac(1, 10),
      0 - Frac(2, 10) }

\* the rectangles min, max of direct pointOnCurve calls
Rectangles ==
    { << <<0, 0>>, <<Num(1), Num(1)>> >>,
      << <<0, Frac(9, 100)>>, <<Frac(228, 1000), Num(1)>> >>,
      << <<Frac(5, 10), Frac(5, 10)>>, <<Frac(5, 10), Frac(5, 10)>> >> }

Fresh(fn, args) == [fn |-> fn, args |-> args, done |-> FALSE, out |-> <<>>]

\* pointOnCurve(curveMethod, i, total, curveAccent, min, max) is about to
\* be called
InitCurve ==
    /\ Idle
    /\ probe \in { Fresh("pointOnCurve", <<m, k, n, a, r[1], r[2]>>) :
                     m \in MethodValues, n \in 1..MaxDivisions, k \in 0..MaxDivisions,
                     a \in Accents, r \in Rectangles }
    /\ probe.args[2] <= probe.args[3]

\* the call of pointOnCurve
CallPointOnCurve ==
    /\ probe.fn = "pointOnCurve"
    /\ ~probe.done
    /\ probe' = [probe EXCEPT !.done = TRUE,
                              !.out = pointOnCurve(probe.args[1], probe.args[2],
                                                   probe.args[3], probe.args[4],
                                                   probe.args[5], probe.args[6])]
    /\ UNCHANGED << pc, argument, given, i, baseColors, lightColors, darkColors,
                    invoked, heap, log, tonal >>

SpecCurve == InitCurve /\ [][CallPointOnCurve]_vars

\* the values k / UnitSteps
UnitGrid == { Frac(k, UnitSteps) : k \in 0..UnitSteps }

\* hsv2hsl(hue, saturation, value) is about to be called
InitHsl ==
    /\ Idle
    /\ probe \in { Fresh("hsv2hsl", <<h, s, v>>) :
                     h \in {0, Num(10), Frac(3595, 10), Num(0 - 20), Num(400)},
                     s \in UnitGrid, v \in UnitGrid }

\* the call of hsv2hsl
CallHsv2hsl ==
    /\ probe.fn = "hsv2hsl"
    /\ ~probe.done
    /\ probe' = [probe EXCEPT !.done = TRUE,
                              !.out = hsv2hsl(probe.args[1], probe.args[2], probe.args[3])]
    /\ UNCHANGED << pc, argument, given, i, baseColors, lightColors, darkColors,
                    invoked, heap, log, tonal >>

SpecHsl == InitHsl /\ [][CallHsv2hsl]_vars

\* the hues k * 360 / HueSteps, and two hues outside 0..360
HueGrid ==
    { Frac(360 * k, HueSteps) : k \in 0..(HueSteps - 1) }
    \cup {Num(359), Num(0 - 30), Num(720)}

\* the percentages k * 100 / PercentSteps, and 50
PercentGrid ==
    { Frac(100 * k, PercentSteps) : k \in 0..PercentSteps } \cup {Num(50)}

\* hslToHex(hue, saturation, lightness) is about to be called
InitHex ==
    /\ Idle
    /\ probe \in { Fresh("hslToHex", <<h, s, l>>) :
                     h \in HueGrid, s \in PercentGrid, l \in PercentGrid }

\* the call of hslToHex
CallHslToHex ==
    /\ probe.fn = "hslToHex"
    /\ ~probe.done
    /\ probe' = [probe EXCEPT !.done = TRUE,
                              !.out = hslToHex(probe.args[1], probe.args[2], probe.args[3])]
    /\ UNCHANGED << pc, argument, given, i, baseColors, lightColors, darkColors,
                    invoked, heap, log, tonal >>

SpecHex == InitHex /\ [][CallHslToHex]_vars

\* ------------------------------------------------------------------------
\* Properties
\* ------------------------------------------------------------------------

\* the parameters a completed call was made with
ParamsOf(e) == Destructure(e.given)

\* the lower-case hexadecimal digits
LowerHexDigits ==
    {"0", "1", "2", "3", "4", "5", "6", "7", "8", "9", "a", "b", "c", "d", "e", "f"}

\* C1: every call with a supported curveMethod (one of the five names or a
\* function) and a total >= 0 returns, with base, light and dark of length
\* total each and all of length 3 * total equal to light ++ base ++ dark.
C1_RampShape ==
    \A n \in DOMAIN log :
        LET e == log[n]
            c == ParamsOf(e)
        IN  (c.curveMethod \in SupportedMethods /\ c.total >= 0) =>
                /\ e.throws = "none"
                /\ Len(e.base) = c.total
                /\ Len(e.light) = c.total
                /\ Len(e.dark) = c.total
                /\ Len(e.all) = 3 * c.total
                /\ e.all = e.light \o e.base \o e.dark

\* C2: every call whose curveMethod is neither one of the five names nor a
\* function ends by throwing the invalid-curve-method Error, whatever total
\* is, and hands no result to the caller.
C2_UnsupportedMethodRaises ==
    \A n \in DOMAIN log :
        LET e == log[n]
            c == ParamsOf(e)
        IN  c.curveMethod \notin SupportedMethods =>
                /\ e.throws = "Error"
                /\ e.refs = <<>>

\* C3: every call whose curveMethod is a function returns without
\* throwing, after invoking the function three times for each index k in
\* 1..total, each time with k / (total + 1).
C3_CustomCurveInvoked ==
    \A n \in DOMAIN log :
        LET e == log[n]
            c == ParamsOf(e)
        IN  c.curveMethod.type = "function" =>
                /\ e.throws = "none"
                /\ e.invoked = [ j \in 1..(3 * c.total) |->
                                   Div(Num((j - 1) \div 3 + 1), Num(c.total + 1)) ]

\* C4: for every supported curveMethod, every i in 0..total and every
\* rectangle min, max, pointOnCurve returns a point (x, y) with
\* min[0] <= x <= max[0] and min[1] <= y <= max[1].
C4_PointInsideRectangle ==
    (probe.fn = "pointOnCurve" /\ probe.done /\ probe.args[1] \in SupportedMethods) =>
        /\ probe.out.throws = "none"
        /\ Le(probe.args[5][1], probe.out.value[1])
        /\ Le(probe.out.value[1], probe.args[6][1])
        /\ Le(probe.args[5][2], probe.out.value[2])
        /\ Le(probe.out.value[2], probe.args[6][2])

\* C5: every triple a call puts in base, light and dark has its hue in
\* [0, 360), for every numeric configuration.
C5_HuesInRange ==
    \A n \in DOMAIN log :
        LET e == log[n]
            triples == e.base \o e.light \o e.dark
        IN  \A k \in DOMAIN triples :
                Le(0, triples[k][1]) /\ Lt(triples[k][1], Num(360))

\* C6: a call without a configuration, or with a configuration that omits
\* total, returns base, light and dark of 3 entries each and all of 9.
C6_DefaultTotalIsThree ==
    \A n \in DOMAIN log :
        LET e == log[n]
        IN  (Default(e.given, EmptyConfig).total = <<>> /\ e.throws = "none") =>
                /\ Len(e.base) = 3
                /\ Len(e.light) = 3
                /\ Len(e.dark) = 3
                /\ Len(e.all) = 9

\* what the caller of a completed call observed, arrays compared by value
Outcome(e) == <<e.throws, e.invoked, e.base, e.light, e.dark, e.all>>

\* C7: generateRandomColorRamp keeps no state between calls.  The
\* configuration is the one the caller gave, during the call and after it;
\* two calls with the same configuration have the same outcome, whatever
\* the caller did to earlier results in between; and the four arrays of a
\* result are distinct from each other and from the arrays of every other
\* result.
C7_NoSharedState ==
    /\ pc = "loop" => argument = given
    /\ \A n \in DOMAIN log : log[n].argument = log[n].given
    /\ \A m, n \in DOMAIN log :
           log[m].given = log[n].given => Outcome(log[m]) = Outcome(log[n])
    /\ \A m, n \in DOMAIN log :
           \A a \in DOMAIN log[m].refs, b \in DOMAIN log[n].refs :
               (m # n \/ a # b) => log[m].refs[a] # log[n].refs[b]
    /\ \A n \in DOMAIN log :
           (log[n].throws = "none" /\ log[n] # Returned[1]) =>
               /\ heap[log[n].refs[1]] = log[n].light
               /\ heap[log[n].refs[2]] = log[n].dark
               /\ heap[log[n].refs[3]] = log[n].base
               /\ heap[log[n].refs[4]] = log[n].all

\* C7 happens: a configuration is used for a second call after the caller
\* extended the light array of the first result, and both calls returned
\* ramps that are not empty.
C7_RepeatedAfterMutation ==
    /\ Len(log) = 2
    /\ log[1].given = log[2].given
    /\ log[1].throws = "none"
    /\ log[1].base # <<>>
    /\ log[1].tonal = 0
    /\ log[2].tonal = 1
    /\ heap[log[1].refs[1]] # log[1].light

\* C8: for every hue and every s, v in [0, 1], hsv2hsl returns the hue
\* unchanged and the lightness v - v * s / 2, which lies in [0, 1]; the
\* saturation is 0 when s = 0, and 0 when the lightness is exactly 0 or 1.
C8_Hsv2hslRanges ==
    (probe.fn = "hsv2hsl" /\ probe.done) =>
        LET s == probe.args[2]
            v == probe.args[3]
        IN  /\ probe.out[1] = probe.args[1]
            /\ probe.out[3] = Sub(v, Div(Mul(v, s), Num(2)))
            /\ Le(0, probe.out[3])
            /\ Le(probe.out[3], Num(1))
            /\ (s = 0 => probe.out[2] = 0)
            /\ (probe.out[3] \in {0, Num(1)} => probe.out[2] = 0)

\* C8 happens: hsv2hsl has returned for a saturated colour of value 0,
\* whose lightness is exactly 0.
C8_BlackSaturated ==
    /\ probe.fn = "hsv2hsl"
    /\ probe.done
    /\ probe.args[2] = Num(1)
    /\ probe.out[3] = 0

\* C9: hslToHex(0, 100, 50) is "#ff0000"; hslToHex(h, 0, 50) is "#808080"
\* for every hue h; and for a hue in [0, 360) and saturation and lightness
\* in [0, 100] the result is "#" and six lower-case hexadecimal digits, two
\* for each channel, which is an integer in 0..255.
C9_HslToHexFormat ==
    (probe.fn = "hslToHex" /\ probe.done) =>
        /\ probe.args = <<0, Num(100), Num(50)>> =>
               probe.out = <<"#", "f", "f", "0", "0", "0", "0">>
        /\ (probe.args[2] = 0 /\ probe.args[3] = Num(50)) =>
               probe.out = <<"#", "8", "0", "8", "0", "8", "0">>
        /\ (Le(0, probe.args[1]) /\ Lt(probe.args[1], Num(360))) =>
               /\ Len(probe.out) = 7
               /\ probe.out[1] = "#"
               /\ \A j \in 2..7 : probe.out[j] \in LowerHexDigits

\* C9 happens: hslToHex has returned for a fully saturated colour of
\* lightness 50 whose channels are not all equal and of which one needs the
\* zero padding.
C9_SaturatedEncoded ==
    /\ probe.fn = "hslToHex"
    /\ probe.done
    /\ probe.args[2] = Num(100)
    /\ probe.args[3] = Num(50)
    /\ Len(probe.out) = 7
    /\ probe.out[2] = "f"
    /\ probe.out[6] = "0"

\* C10: in every result the three arrays have the same length, and for
\* every index k, with h the hue of base[k] and every sample taken at
\* k / (total + 1): base[k] is the converted point sampled with curveAccent;
\* light[k] is ((h + 360 * tintShadeHueShift) mod 360, s_l - offsetTint,
\* l_l + offsetTint) for the converted point sampled with curveAccent +
\* offsetCurveModTint; dark[k] is ((360 + h - 360 * tintShadeHueShift) mod
\* 360, s_d - offsetShade, l_d - offsetShade) for the converted point
\* sampled with curveAccent - offsetCurveModShade; nothing is clamped.
C10_EntriesFollowFormulas ==
    \A n \in DOMAIN log :
        LET e == log[n]
            c == ParamsOf(e)
        IN  e.throws = "none" =>
              /\ Len(e.light) = Len(e.base)
              /\ Len(e.dark) = Len(e.base)
              /\ \A k \in DOMAIN e.base :
                   LET h == e.base[k][1]
                       shift == Mul(Num(360), c.tintShadeHueShift)
                       p == pointOnCurve(c.curveMethod, k, c.total + 1, c.curveAccent,
                                         c.minSaturationLight, c.maxSaturationLight).value
                       pl == pointOnCurve(c.curveMethod, k, c.total + 1,
                                          Add(c.curveAccent, c.offsetCurveModTint),
                                          c.minSaturationLight, c.maxSaturationLight).value
                       pd == pointOnCurve(c.curveMethod, k, c.total + 1,
                                          Sub(c.curveAccent, c.offsetCurveModShade),
                                          c.minSaturationLight, c.maxSaturationLight).value
                       tint == hsv2hsx(h, pl[1], pl[2], c.colorModel)
                       shade == hsv2hsx(h, pd[1], pd[2], c.colorModel)
                   IN  /\ 0 < k
                       /\ k < c.total + 1
                       /\ e.base[k] = hsv2hsx(h, p[1], p[2], c.colorModel)
                       /\ e.light[k] = << JsRem(Add(h, shift), Num(360)),
                                          Sub(tint[2], c.offsetTint),
                                          Add(tint[3], c.offsetTint) >>
                       /\ e.dark[k] = << JsRem(Sub(Add(Num(360), h), shift), Num(360)),
                                         Sub(shade[2], c.offsetShade),
                                         Sub(shade[3], c.offsetShade) >>

\* C10 happens: a call has returned a ramp of at least two entries in which
\* a tint has a lightness above 1 and a shade a saturation or lightness
\* below 0.
C10_OffsetsLeaveUnitRange ==
    \E n \in DOMAIN log :
        /\ log[n].throws = "none"
        /\ Len(log[n].base) >= 2
        /\ \E k \in DOMAIN log[n].light : Lt(Num(1), log[n].light[k][3])
        /\ \E k \in DOMAIN log[n].dark :
               Lt(log[n].dark[k][2], 0) \/ Lt(log[n].dark[k][3], 0)

\* C11: all is a snapshot taken at the return.  For the first ramp
\* generated, whose light array colorPaletteModified extends, light holds
\* the total entries of the return followed by 4 more for every run of
\* colorPaletteModified, while all still is the array of 3 * total entries
\* of the return and base and dark are unchanged, so that after an
\* extension all differs from light ++ base ++ dark; the arrays of every
\* other ramp are the ones of its return.
C11_AllIsSnapshot ==
    \A n \in DOMAIN log :
        LET e == log[n]
            total == ParamsOf(e).total
            extended == IF e = Returned[1] THEN 4 * tonal ELSE 0
        IN  e.throws = "none" =>
              LET light == heap[e.refs[1]]
                  dark == heap[e.refs[2]]
                  base == heap[e.refs[3]]
                  all == heap[e.refs[4]]
              IN  /\ Len(light) = total + extended
                  /\ SubSeq(light, 1, total) = e.light
                  /\ all = e.all
                  /\ Len(all) = 3 * total
                  /\ base = e.base
                  /\ dark = e.dark
                  /\ (extended > 0) = (all # light \o base \o dark)

\* C11 happens: two ramps were generated, neither of them empty, and then
\* colorPaletteModified extended the light array of the first.
C11_ExtendedAfterBothRamps ==
    /\ Len(log) = 2
    /\ log[1].throws = "none"
    /\ log[2].throws = "none"
    /\ log[1].base # <<>>
    /\ log[2].base # <<>>
    /\ log[2].tonal = 0
    /\ tonal = 1
    /\ Len(heap[log[1].refs[1]]) = Len(log[1].light) + 4

====
